---------------------------- MODULE Spec2Model ----------------------------
(***************************************************************************)
(* World Calc Hub: a searchable tab shell (WorldCalcHub) over a registry   *)
(* of independent calculator components, each holding its inputs in React  *)
(* state and deriving its outputs from them with JavaScript Number         *)
(* (IEEE-754 binary64) arithmetic.                                         *)
(*                                                                         *)
(* Source: src/world_all_in_one_calculators_react_tailwind_single_file.jsx *)
(***************************************************************************)
EXTENDS Integers, Sequences, FiniteSets, TLC

VARIABLES
    registry, \* the array CALC_REGISTRY                         (line 579)
    query,    \* WorldCalcHub: useState("")                      (line 602)
    active,   \* WorldCalcHub: useState(CALC_REGISTRY[0].id)     (line 603)
    filtered, \* WorldCalcHub: useMemo(..., [query])             (line 604)
    fields    \* the useState cells of the one mounted calculator component

vars == <<registry, query, active, filtered, fields>>

Max(a, b) == IF a >= b THEN a ELSE b
Min(a, b) == IF a <= b THEN a ELSE b

(***************************************************************************)
(* Natural numbers of any size, as little-endian sequences of limbs in     *)
(* 0..Base-1 with no leading zero limb (<<>> is 0).  They carry the 53-bit *)
(* significands of JavaScript Numbers and the exact products and quotients *)
(* that are rounded back to 53 bits.                                       *)
(***************************************************************************)
Base == 2^15

RECURSIVE NatBitLen(_)
NatBitLen(n) == IF n = 0 THEN 0 ELSE 1 + NatBitLen(n \div 2)

LimbBits == NatBitLen(Base) - 1

Limb(a, i) == IF i >= 1 /\ i <= Len(a) THEN a[i] ELSE 0

\* the limbs i |-> f[i] as a sequence, each computed once
Limbs(f) == f \o <<>>

\* a without its leading zero limbs
BNorm(a) ==
    IF \A i \in DOMAIN a : a[i] = 0 THEN <<>>
    ELSE SubSeq(a, 1, CHOOSE i \in DOMAIN a :
                          a[i] # 0 /\ \A j \in (i + 1)..Len(a) : a[j] = 0)

RECURSIVE BFromNat(_)
BFromNat(n) == IF n = 0 THEN <<>> ELSE <<n % Base>> \o BFromNat(n \div Base)

\* the carry into limb i of a + b: a limb below i overflows, and every limb
\* between the two passes the carry on
CarryIn(a, b, i) ==
    \E j \in 1..(i - 1) :
        /\ Limb(a, j) + Limb(b, j) >= Base
        /\ \A k \in (j + 1)..(i - 1) : Limb(a, k) + Limb(b, k) = Base - 1

\* a + b, for a and b with or without leading zero limbs
BAdd(a, b) ==
    BNorm(Limbs([i \in 1..(Max(Len(a), Len(b)) + 1) |->
              (Limb(a, i) + Limb(b, i) + IF CarryIn(a, b, i) THEN 1 ELSE 0) % Base]))

\* the borrow from limb i of a - b
BorrowIn(a, b, i) ==
    \E j \in 1..(i - 1) :
        /\ a[j] < Limb(b, j)
        /\ \A k \in (j + 1)..(i - 1) : a[k] = Limb(b, k)

\* a - b for a >= b
BSub(a, b) ==
    BNorm(Limbs([i \in 1..Len(a) |->
              (a[i] - Limb(b, i) - (IF BorrowIn(a, b, i) THEN 1 ELSE 0) + Base) % Base]))

\* -1, 0, 1 as a < b, a = b, a > b
BCmp(a, b) ==
    IF Len(a) < Len(b) THEN -1
    ELSE IF Len(a) > Len(b) THEN 1
    ELSE IF a = b THEN 0
    ELSE LET i == CHOOSE i \in DOMAIN a :
                      a[i] # b[i] /\ \A j \in (i + 1)..Len(a) : a[j] = b[j]
         IN  IF a[i] < b[i] THEN -1 ELSE 1

\* a * k for one limb k: the low halves of the limbs' products, plus their
\* high halves one limb up
BMulSmall(a, k) ==
    BAdd(Limbs([i \in 1..Len(a) |-> (a[i] * k) % Base]),
         <<0>> \o [i \in 1..Len(a) |-> (a[i] * k) \div Base])

\* x * Base^j
BShiftLimbs(x, j) == IF x = <<>> THEN <<>> ELSE [i \in 1..j |-> 0] \o x

\* a times the limbs lo..hi of b in their places
RECURSIVE BMulRange(_, _, _, _)
BMulRange(a, b, lo, hi) ==
    IF lo = hi THEN BShiftLimbs(BMulSmall(a, b[lo]), lo - 1)
    ELSE BAdd(BMulRange(a, b, lo, (lo + hi) \div 2),
              BMulRange(a, b, (lo + hi) \div 2 + 1, hi))

BMul(a, b) == IF a = <<>> \/ b = <<>> THEN <<>> ELSE BMulRange(a, b, 1, Len(b))

\* a * 2^n
BShl(a, n) ==
    IF a = <<>> THEN <<>>
    ELSE [i \in 1..(n \div LimbBits) |-> 0] \o BMulSmall(a, 2^(n % LimbBits))

\* floor(a / 2^n)
BShr(a, n) ==
    LET q == n \div LimbBits
        s == n % LimbBits
    IN  BNorm(Limbs([i \in 1..(Len(a) - q) |->
                  a[i + q] \div 2^s + (Limb(a, i + q + 1) % 2^s) * 2^(LimbBits - s)]))

\* a mod 2^n
BLow(a, n) ==
    LET q == n \div LimbBits
    IN  IF q >= Len(a) THEN a
        ELSE BNorm(SubSeq(a, 1, q) \o <<a[q + 1] % 2^(n % LimbBits)>>)

BBitLen(a) ==
    IF a = <<>> THEN 0 ELSE (Len(a) - 1) * LimbBits + NatBitLen(a[Len(a)])

\* bit i (0 = least significant) of a
BBit(a, i) == (Limb(a, i \div LimbBits + 1) \div 2^(i % LimbBits)) % 2

BIsOdd(a) == a # <<>> /\ a[1] % 2 = 1

RECURSIVE NatTrailingZeros(_)
NatTrailingZeros(n) == IF n % 2 = 1 THEN 0 ELSE 1 + NatTrailingZeros(n \div 2)

\* number of trailing zero bits of a # 0
BTrailingZeros(a) ==
    LET i == CHOOSE i \in DOMAIN a : a[i] # 0 /\ \A j \in 1..(i - 1) : a[j] = 0
    IN  (i - 1) * LimbBits + NatTrailingZeros(a[i])

\* the largest digit k' <= k with k' * b * Base^j <= r
RECURSIVE BDigitFix(_, _, _, _)
BDigitFix(r, b, j, k) ==
    IF BCmp(BShiftLimbs(BMulSmall(b, k), j), r) > 0
    THEN BDigitFix(r, b, j, k - 1)
    ELSE k

\* long division in radix Base, one quotient limb per step from position j
\* down, each estimated from the two top limbs of the running remainder r
\* and the top limb of the divisor b (whose top bit is set), then fixed
RECURSIVE BDivModFrom(_, _, _, _)
BDivModFrom(r, b, j, q) ==
    IF j < 0 THEN <<q, r>>
    ELSE LET n     == Len(b)
             t     == Limb(r, n + j + 1) * Base + Limb(r, n + j)
             digit == BDigitFix(r, b, j, Min(Base - 1, t \div b[n]))
         IN  BDivModFrom(BSub(r, BShiftLimbs(BMulSmall(b, digit), j)),
                         b, j - 1, <<digit>> \o q)

\* <<floor(a / b), a mod b>> for b # 0
BDivMod(a, b) ==
    IF BCmp(a, b) < 0 THEN <<<<>>, a>>
    ELSE LET d   == LimbBits - NatBitLen(b[Len(b)])
             an  == BShl(a, d)
             bn  == BShl(b, d)
             res == BDivModFrom(an, bn, Len(an) - Len(bn), <<>>)
         IN  <<BNorm(res[1]), BShr(res[2], d)>>

\* a^n, by squaring
RECURSIVE BPow(_, _)
BPow(a, n) ==
    IF n = 0 THEN <<1>>
    ELSE LET h  == BPow(a, n \div 2)
             sq == BMul(h, h)
         IN  IF n % 2 = 0 THEN sq ELSE BMul(sq, a)

(***************************************************************************)
(* JavaScript Number values: IEEE-754 binary64.  A finite value is         *)
(* (-1)^s * m * 2^e with m a natural number, odd unless it is 0, so that   *)
(* every value has one representation; every operation rounds its exact    *)
(* result to nearest, ties to even, at 53 significant bits (fewer in the   *)
(* subnormal range) and overflows to an infinity.                          *)
(***************************************************************************)
Precision == 53
EMin == -1074
EMax == 1023

NaN == [k |-> "nan", s |-> 0, m |-> <<>>, e |-> 0]
Infinity(s) == [k |-> "inf", s |-> s, m |-> <<>>, e |-> 0]
Zero(s) == [k |-> "fin", s |-> s, m |-> <<>>, e |-> 0]

IsNaN(x) == x.k = "nan"
IsFinite(x) == x.k = "fin"
IsZero(x) == x.k = "fin" /\ x.m = <<>>

\* m * 2^e, exactly representable, in its one representation
Canon(s, m, e) ==
    IF m = <<>> THEN Zero(s)
    ELSE IF BBitLen(m) + e - 1 > EMax THEN Infinity(s)
    ELSE LET tz == BTrailingZeros(m)
         IN  [k |-> "fin", s |-> s, m |-> BShr(m, tz), e |-> e + tz]

\* the Number nearest to n * 2^e (+ a positive amount below one unit of n
\* when sticky), ties to even
RoundNearestEven(s, n, e, sticky) ==
    LET drop == Max(BBitLen(n) - Precision, EMin - e)
    IN  IF drop <= 0 THEN Canon(s, n, e)
        ELSE LET q   == BShr(n, drop)
                 c   == BCmp(BLow(n, drop), BShl(<<1>>, drop - 1))
                 up  == c > 0 \/ (c = 0 /\ (sticky \/ BIsOdd(q)))
             IN  Canon(s, IF up THEN BAdd(q, <<1>>) ELSE q, e + drop)

\* the Number nearest to (n / d) * 2^e for naturals n and d # 0
RoundDiv(s, n, d, e) ==
    IF n = <<>> THEN Zero(s)
    ELSE LET sh == Max(0, Precision + 2 + BBitLen(d) - BBitLen(n))
             qr == BDivMod(BShl(n, sh), d)
         IN  RoundNearestEven(s, qr[1], e - sh, qr[2] # <<>>)

\* an integer of the model as a Number
FromInt(n) == IF n < 0 THEN Canon(1, BFromNat(-n), 0) ELSE Canon(0, BFromNat(n), 0)

\* the decimal literal digits * 10^-scale of the source text (0.0254 is
\* Dec(254, 4)), which the engine rounds to the nearest Number
Dec(digits, scale) == RoundDiv(0, BFromNat(digits), BPow(<<10>>, scale), 0)

Xor(a, b) == (a + b) % 2

FNeg(x) == [x EXCEPT !.s = 1 - x.s]

\* x * y
FMul(x, y) ==
    IF IsNaN(x) \/ IsNaN(y) THEN NaN
    ELSE IF x.k = "inf" \/ y.k = "inf"
         THEN IF IsZero(x) \/ IsZero(y) THEN NaN ELSE Infinity(Xor(x.s, y.s))
    ELSE RoundNearestEven(Xor(x.s, y.s), BMul(x.m, y.m), x.e + y.e, FALSE)

\* x / y
FDiv(x, y) ==
    IF IsNaN(x) \/ IsNaN(y) THEN NaN
    ELSE IF x.k = "inf" THEN IF y.k = "inf" THEN NaN ELSE Infinity(Xor(x.s, y.s))
    ELSE IF y.k = "inf" THEN Zero(Xor(x.s, y.s))
    ELSE IF IsZero(y) THEN IF IsZero(x) THEN NaN ELSE Infinity(Xor(x.s, y.s))
    ELSE RoundDiv(Xor(x.s, y.s), x.m, y.m, x.e - y.e)

\* -1, 0, 1 as |x| < |y|, |x| = |y|, |x| > |y| for finite x, y
CmpAbs(x, y) ==
    IF x.m = <<>> \/ y.m = <<>>
    THEN IF x.m = y.m THEN 0 ELSE IF x.m = <<>> THEN -1 ELSE 1
    ELSE IF BBitLen(x.m) + x.e < BBitLen(y.m) + y.e THEN -1
    ELSE IF BBitLen(x.m) + x.e > BBitLen(y.m) + y.e THEN 1
    ELSE LET e0 == Min(x.e, y.e)
         IN  BCmp(BShl(x.m, x.e - e0), BShl(y.m, y.e - e0))

\* x + y
FAdd(x, y) ==
    IF IsNaN(x) \/ IsNaN(y) THEN NaN
    ELSE IF x.k = "inf"
         THEN IF y.k = "inf" /\ y.s # x.s THEN NaN ELSE x
    ELSE IF y.k = "inf" THEN y
    ELSE IF IsZero(x) /\ IsZero(y) THEN Zero(IF x.s = 1 /\ y.s = 1 THEN 1 ELSE 0)
    ELSE IF IsZero(x) THEN y
    ELSE IF IsZero(y) THEN x
    ELSE LET e0 == Min(x.e, y.e)
             a  == BShl(x.m, x.e - e0)
             b  == BShl(y.m, y.e - e0)
             c  == BCmp(a, b)
         IN  IF x.s = y.s THEN RoundNearestEven(x.s, BAdd(a, b), e0, FALSE)
             ELSE IF c = 0 THEN Zero(0)
             ELSE IF c > 0 THEN RoundNearestEven(x.s, BSub(a, b), e0, FALSE)
             ELSE RoundNearestEven(y.s, BSub(b, a), e0, FALSE)

\* x - y
FSub(x, y) == FAdd(x, FNeg(y))

\* x === y
FEq(x, y) ==
    /\ ~IsNaN(x) /\ ~IsNaN(y)
    /\ \/ x = y
       \/ IsZero(x) /\ IsZero(y)

\* x < y
FLt(x, y) ==
    /\ ~IsNaN(x) /\ ~IsNaN(y) /\ ~FEq(x, y)
    /\ IF x.k = "inf" THEN x.s = 1
       ELSE IF y.k = "inf" THEN y.s = 0
       ELSE IF x.s # y.s THEN x.s = 1
       ELSE IF x.s = 0 THEN CmpAbs(x, y) < 0 ELSE CmpAbs(x, y) > 0

\* Math.round(x): floor(x + 0.5) computed exactly; -0 for -0.5 <= x <= -0
MathRound(x) ==
    IF ~IsFinite(x) \/ x.e >= 0 \/ x.m = <<>> THEN x
    ELSE IF BBitLen(x.m) + x.e < 0 THEN Zero(x.s)
    ELSE LET h == BShl(<<1>>, -x.e - 1)
         IN  IF x.s = 0 THEN Canon(0, BShr(BAdd(x.m, h), -x.e), 0)
             ELSE IF BCmp(x.m, h) <= 0 THEN Zero(1)
             ELSE Canon(1, BShr(BAdd(BSub(x.m, h), BSub(BShl(h, 1), <<1>>)), -x.e), 0)

RECURSIVE BToNatFrom(_, _)
BToNatFrom(a, i) == IF i > Len(a) THEN 0 ELSE a[i] + Base * BToNatFrom(a, i + 1)

\* the absolute value of an integral finite Number, as an integer of the model
AbsInt(x) == BToNatFrom(BShl(x.m, x.e), 1)

IsIntegral(x) == IsFinite(x) /\ x.e >= 0

(***************************************************************************)
(* JavaScript values.  Every value is a record [t, v]: t its type tag and  *)
(* v its payload: a Number for "number"; for "string" the sequence of its  *)
(* characters when it is free text (typed input, titles, keywords) and the *)
(* text itself when it is one of a fixed set of options (a <select> value, *)
(* an id).                                                                 *)
(***************************************************************************)
Num(x) == [t |-> "number", v |-> x]
Str(chars) == [t |-> "string", v |-> chars]
Undefined == [t |-> "undefined", v |-> <<>>]
Null == [t |-> "null", v |-> <<>>]

DigitChars == <<"0", "1", "2", "3", "4", "5", "6", "7", "8", "9">>
IsDigit(c) == \E i \in DOMAIN DigitChars : DigitChars[i] = c
DigitVal(c) == (CHOOSE i \in DOMAIN DigitChars : DigitChars[i] = c) - 1

WhiteSpace == {" ", "\t", "\n", "\r"}

UpperChars == <<"A", "B", "C", "D", "E", "F", "G", "H", "I", "J", "K", "L", "M",
                "N", "O", "P", "Q", "R", "S", "T", "U", "V", "W", "X", "Y", "Z">>
LowerChars == <<"a", "b", "c", "d", "e", "f", "g", "h", "i", "j", "k", "l", "m",
                "n", "o", "p", "q", "r", "s", "t", "u", "v", "w", "x", "y", "z">>

LowerOf == [c \in {UpperChars[j] : j \in DOMAIN UpperChars} |->
               LowerChars[CHOOSE j \in DOMAIN UpperChars : UpperChars[j] = c]]

\* String.prototype.toLowerCase
toLowerCase(str) ==
    [i \in DOMAIN str |-> IF str[i] \in DOMAIN LowerOf THEN LowerOf[str[i]] ELSE str[i]]

\* String.prototype.trim
RECURSIVE trim(_)
trim(str) ==
    IF str = <<>> THEN str
    ELSE IF str[1] \in WhiteSpace THEN trim(Tail(str))
    ELSE IF str[Len(str)] \in WhiteSpace THEN trim(SubSeq(str, 1, Len(str) - 1))
    ELSE str

\* String.prototype.includes
includes(str, q) ==
    \E i \in 0..(Len(str) - Len(q)) : \A j \in DOMAIN q : str[i + j] = q[j]

\* String.prototype.replace(/,/g, "")
RemoveCommas(str) == SelectSeq(str, LAMBDA c : c # ",")

\* the number of digits of str from position i on
RECURSIVE DigitRun(_, _)
DigitRun(str, i) ==
    IF i <= Len(str) /\ IsDigit(str[i]) THEN 1 + DigitRun(str, i + 1) ELSE 0

\* the natural number written by the n digits of str from position i on
RECURSIVE DigitsValue(_, _, _)
DigitsValue(str, i, n) ==
    IF n = 0 THEN <<>>
    ELSE BAdd(BMulSmall(DigitsValue(str, i, n - 1), 10),
              BFromNat(DigitVal(str[i + n - 1])))

\* a natural number below 2^31 written by at most 4 digits of str from i on,
\* larger exponents saturating
SmallDigitsValue(str, i, n) ==
    IF n > 4 THEN 9999
    ELSE LET RECURSIVE val(_)
             val(k) == IF k = 0 THEN 0 ELSE 10 * val(k - 1) + DigitVal(str[i + k - 1])
         IN  val(n)

\* parseFloat: leading white space, then the longest prefix that is a
\* StrDecimalLiteral ([+-] Infinity | digits [. digits] [e [+-] digits] |
\* . digits [e [+-] digits]); NaN when there is none
parseFloat(str0) ==
    LET RECURSIVE skip(_)
        skip(i) == IF i <= Len(str0) /\ str0[i] \in WhiteSpace THEN skip(i + 1) ELSE i
        at(i)  == IF i <= Len(str0) THEN str0[i] ELSE ""
        p0     == skip(1)
        sign   == IF at(p0) = "-" THEN 1 ELSE 0
        p1     == IF at(p0) \in {"+", "-"} THEN p0 + 1 ELSE p0
        ni     == DigitRun(str0, p1)
        nf     == IF at(p1 + ni) = "." THEN DigitRun(str0, p1 + ni + 1) ELSE 0
        p2     == IF at(p1 + ni) = "." /\ (ni > 0 \/ nf > 0) THEN p1 + ni + 1 + nf
                  ELSE p1 + ni
        esign  == IF at(p2 + 1) = "-" THEN -1 ELSE 1
        p3     == IF at(p2 + 1) \in {"+", "-"} THEN p2 + 2 ELSE p2 + 1
        ne     == IF at(p2) \in {"e", "E"} THEN DigitRun(str0, p3) ELSE 0
        exp    == esign * SmallDigitsValue(str0, p3, ne) - nf
        digits == BAdd(BMul(DigitsValue(str0, p1, ni), BPow(<<10>>, nf)),
                       DigitsValue(str0, p1 + ni + 1, nf))
    IN  IF p1 + 7 <= Len(str0)
           /\ SubSeq(str0, p1, p1 + 7) = <<"I", "n", "f", "i", "n", "i", "t", "y">>
        THEN Infinity(sign)
        ELSE IF ni = 0 /\ nf = 0 THEN NaN
        ELSE IF digits = <<>> THEN Zero(sign)
        ELSE IF exp >= 0
             THEN IF exp > 400 THEN Infinity(sign)
                  ELSE RoundNearestEven(sign, BMul(digits, BPow(<<10>>, exp)), 0, FALSE)
             ELSE IF exp < -1200 THEN Zero(sign)
                  ELSE RoundDiv(sign, digits, BPow(<<10>>, -exp), 0)

\* toNum(v, def = 0), lines 69-72
toNumOr(v, def) ==
    LET n == IF v.t = "number" THEN v.v ELSE parseFloat(RemoveCommas(v.v))
    IN  IF IsFinite(n) THEN n ELSE def

toNum(v) == toNumOr(v, Zero(0))

\* the decimal digits of the natural number n
RECURSIVE NatText(_)
NatText(n) ==
    IF n < 10 THEN <<DigitChars[n + 1]>>
    ELSE NatText(n \div 10) \o <<DigitChars[(n % 10) + 1]>>

\* the text a user types for the integer n
IntText(n) == IF n < 0 THEN <<"-">> \o NatText(-n) ELSE NatText(n)

\* ToInt32 of the radix argument: 0 for undefined and for a Number that is
\* not finite, and the integer part of a finite one (one below 2^31 in
\* magnitude, as every radix of the source is)
ToInt32(v) ==
    IF v.t = "undefined" \/ ~IsFinite(v.v) THEN 0
    ELSE LET n == BToNatFrom(IF v.v.e >= 0 THEN BShl(v.v.m, v.v.e)
                             ELSE BShr(v.v.m, -v.v.e), 1)
         IN  IF v.v.s = 1 THEN -n ELSE n

\* the digits of the radixes up to 36, in the case toString writes them
RadixChars == DigitChars \o LowerChars

\* the value of the character c as a digit, 36 when it is none
RadixDigitVal(c) ==
    IF \E i \in DOMAIN RadixChars : RadixChars[i] = c
    THEN (CHOOSE i \in DOMAIN RadixChars : RadixChars[i] = c) - 1
    ELSE IF \E i \in DOMAIN UpperChars : UpperChars[i] = c
         THEN (CHOOSE i \in DOMAIN UpperChars : UpperChars[i] = c) + 9
         ELSE 36

\* the number of digits of the radix R of str from position i on
RECURSIVE RadixDigitRun(_, _, _)
RadixDigitRun(str, i, R) ==
    IF i <= Len(str) /\ RadixDigitVal(str[i]) < R
    THEN 1 + RadixDigitRun(str, i + 1, R) ELSE 0

\* the natural number written in radix R by the n digits of str from i on:
\* that of its first half, times R for every digit of the second, plus that
\* of the second
RECURSIVE RadixDigitsValue(_, _, _, _)
RadixDigitsValue(str, i, n, R) ==
    IF n = 0 THEN <<>>
    ELSE IF n = 1 THEN BFromNat(RadixDigitVal(str[i]))
    ELSE LET h == n \div 2
         IN  BAdd(BMul(RadixDigitsValue(str, i, h, R), BPow(BFromNat(R), n - h)),
                  RadixDigitsValue(str, i + h, n - h, R))

\* parseInt(string, radix): leading white space and a sign are skipped, 0x
\* or 0X too when the radix is 16 or absent; the digits of the radix that
\* follow, up to the first character that is none, are the integer, rounded
\* to a Number; NaN when there is no digit.  (Past 20 significant digits an
\* engine may approximate in the radixes that are not powers of 2 or 10.)
parseInt(str0, radix) ==
    LET RECURSIVE skip(_)
        skip(i) == IF i <= Len(str0) /\ str0[i] \in WhiteSpace THEN skip(i + 1) ELSE i
        at(i)   == IF i <= Len(str0) THEN str0[i] ELSE ""
        p0      == skip(1)
        sign    == IF at(p0) = "-" THEN 1 ELSE 0
        p1      == IF at(p0) \in {"+", "-"} THEN p0 + 1 ELSE p0
        R0      == ToInt32(radix)
        prefix  == R0 \in {0, 16} /\ at(p1) = "0" /\ at(p1 + 1) \in {"x", "X"}
        R       == IF prefix THEN 16 ELSE IF R0 = 0 THEN 10 ELSE R0
        p2      == IF prefix THEN p1 + 2 ELSE p1
        n       == RadixDigitRun(str0, p2, R)
        mathInt == RadixDigitsValue(str0, p2, n, R)
    IN  IF R0 # 0 /\ (R0 < 2 \/ R0 > 36) THEN NaN
        ELSE IF n = 0 THEN NaN
        ELSE IF mathInt = <<>> THEN Zero(sign)
        ELSE RoundNearestEven(sign, mathInt, 0, FALSE)

\* the digits of the natural number n in radix R, none for 0: as many as
\* the powers of R up to n, the i-th from the right floor(n / R^(i-1)) mod R
RadixDigits(n, R) ==
    LET r     == BFromNat(R)
        count == Cardinality({k \in 0..BBitLen(n) : BCmp(BPow(r, k), n) <= 0})
        digit(i) == BToNatFrom(BDivMod(BDivMod(n, BPow(r, i - 1))[1], r)[2], 1)
    IN  IF n = <<>> THEN <<>>
        ELSE [i \in 1..count |-> RadixChars[digit(count + 1 - i) + 1]]

\* the text an engine writes for the Number x in the radix, where the
\* language leaves it to the engine
RadixText(x, radix) == [t |-> "radixText", v |-> <<x, radix>>]

\* Number.prototype.toString(radix): "NaN", "Infinity", "0" for both zeros,
\* "-" before a negative number; the digits of an integer up to 2^53, which
\* every engine writes exactly
NumberToString(x, radix) ==
    LET R == ToInt32(radix)
    IN  IF IsNaN(x) THEN Str(<<"N", "a", "N">>)
        ELSE IF IsZero(x) THEN Str(<<"0">>)
        ELSE IF ~IsFinite(x)
             THEN Str((IF x.s = 1 THEN <<"-">> ELSE <<>>)
                      \o <<"I", "n", "f", "i", "n", "i", "t", "y">>)
        ELSE IF IsIntegral(x) /\ BCmp(BShl(x.m, x.e), BShl(<<1>>, Precision)) <= 0
             THEN Str((IF x.s = 1 THEN <<"-">> ELSE <<>>)
                      \o RadixDigits(BShl(x.m, x.e), R))
        ELSE RadixText(x, radix)

\* String.prototype.toUpperCase
toUpperCase(s) ==
    IF s.t = "string"
    THEN Str([i \in DOMAIN s.v |->
                 IF \E j \in DOMAIN LowerChars : LowerChars[j] = s.v[i]
                 THEN UpperChars[CHOOSE j \in DOMAIN LowerChars : LowerChars[j] = s.v[i]]
                 ELSE s.v[i]])
    ELSE [t |-> "upperCase", v |-> s]

\* what Number.prototype.toLocaleString(undefined, {maximumFractionDigits: d})
\* returns is the host locale's: kept as the numeral of x with at most d
\* fraction digits, after the text before it in a template literal
Numeral(before, x, d) == [t |-> "numeral", v |-> <<before, x, d>>]

\* a fmt that replaces NaN only
fmt_OnlyNaN(n, d) ==
    IF n.t = "undefined" \/ n.t = "null" \/ (n.t = "number" /\ IsNaN(n.v))
    THEN Str(<<"-">>)
    ELSE Numeral(<<>>, n.v, d)

\* fmt(n, d = 2), lines 74-78
fmt(n, d) ==
    IF n.t = "undefined" \/ n.t = "null" \/ (n.t = "number" /\ IsNaN(n.v))
    THEN Str(<<"-">>)
    ELSE IF IsFinite(n.v) THEN Numeral(<<>>, n.v, d) ELSE Str(<<"-">>)

(***************************************************************************)
(* The calculator components' state: the useState cells of each, with the  *)
(* initial values the source gives them.                                   *)
(***************************************************************************)
ComponentState(el) ==
    CASE el = "BasicCalculator" ->
           [a |-> Num(FromInt(0)), b |-> Num(FromInt(0)), op |-> Str("+")]
      [] el = "PercentageCalculator" ->
           [base |-> Num(FromInt(100)), pct |-> Num(FromInt(10))]
      [] el = "DiscountCalculator" ->
           [mrp |-> Num(FromInt(1000)), off |-> Num(FromInt(15))]
      [] el = "GSTCalculator" ->
           [amount |-> Num(FromInt(1000)), rate |-> Num(FromInt(18)),
            mode |-> Str("Add GST")]
      [] el = "BMICalculator" ->
           [unit |-> Str("Metric (kg, cm)"), w |-> Num(FromInt(70)),
            h |-> Num(FromInt(170))]
      [] el = "AgeCalculator" ->
           [dob |-> Str(<<"1", "9", "9", "5", "-", "0", "1", "-", "0", "1">>)]
      [] el = "DateDiffCalculator" ->
           [a |-> Str(<<>>), b |-> Str(<<>>)]
      [] el = "TemperatureConverter" ->
           [from |-> Str("Celsius"), to |-> Str("Fahrenheit"), val |-> Num(FromInt(25))]
      [] el = "LengthConverter" ->
           [from |-> Str("m"), to |-> Str("ft"), val |-> Num(FromInt(1))]
      [] el = "WeightConverter" ->
           [from |-> Str("kg"), to |-> Str("lb"), val |-> Num(FromInt(1))]
      [] el = "TimeConverter" ->
           [from |-> Str("min"), to |-> Str("sec"), val |-> Num(FromInt(5))]
      [] el = "SpeedConverter" ->
           [from |-> Str("km/h"), to |-> Str("m/s"), val |-> Num(FromInt(60))]
      [] el = "AreaConverter" ->
           [from |-> Str("sq m"), to |-> Str("sq ft"), val |-> Num(FromInt(1))]
      [] el = "EMI" ->
           [p |-> Num(FromInt(500000)), r |-> Num(FromInt(10)),
            tenureType |-> Str("Years"), t |-> Num(FromInt(5))]
      [] el = "SIP" ->
           [m |-> Num(FromInt(5000)), r |-> Num(FromInt(12)), y |-> Num(FromInt(10))]
      [] el = "CompoundInterest" ->
           [p |-> Num(FromInt(10000)), r |-> Num(Dec(75, 1)),
            n |-> Num(FromInt(4)), t |-> Num(FromInt(5))]
      [] el = "FractionToDecimal" ->
           [num |-> Num(FromInt(1)), den |-> Num(FromInt(2))]
      [] el = "BaseConverter" ->
           [from |-> Num(FromInt(10)), to |-> Num(FromInt(2)),
            val |-> Str(<<"4", "2">>)]

\* the options of the <select> that sets field f of component el; {} for
\* a field set from an <input>
Options(el, f) ==
    CASE el = "BasicCalculator" /\ f = "op" ->
           {Str("+"), Str("-"), Str("×"), Str("÷")}
      [] el = "GSTCalculator" /\ f = "mode" -> {Str("Add GST"), Str("Remove GST")}
      [] el = "BMICalculator" /\ f = "unit" ->
           {Str("Metric (kg, cm)"), Str("Imperial (lb, inch)")}
      [] el = "TemperatureConverter" /\ f \in {"from", "to"} ->
           {Str("Celsius"), Str("Fahrenheit"), Str("Kelvin")}
      [] el = "LengthConverter" /\ f \in {"from", "to"} ->
           {Str("mm"), Str("cm"), Str("m"), Str("km"), Str("inch"), Str("ft")}
      [] el = "WeightConverter" /\ f \in {"from", "to"} ->
           {Str("g"), Str("kg"), Str("lb")}
      [] el = "TimeConverter" /\ f \in {"from", "to"} ->
           {Str("sec"), Str("min"), Str("hr"), Str("day")}
      [] el = "SpeedConverter" /\ f \in {"from", "to"} ->
           {Str("m/s"), Str("km/h"), Str("mph")}
      [] el = "AreaConverter" /\ f \in {"from", "to"} -> {Str("sq m"), Str("sq ft")}
      [] el = "EMI" /\ f = "tenureType" -> {Str("Years"), Str("Months")}
      [] el = "BaseConverter" /\ f \in {"from", "to"} ->
           {Num(parseInt(IntText(b), Undefined)) : b \in {2, 8, 10, 16, 36}}
      [] OTHER -> {}

\* Array.prototype.find(c => c.id === id): the first such element, or undefined
Find(arr, id) ==
    IF \E i \in DOMAIN arr : arr[i].id = id
    THEN arr[CHOOSE i \in DOMAIN arr :
                /\ arr[i].id = id
                /\ \A j \in 1..(i - 1) : arr[j].id # id]
    ELSE Undefined

(***************************************************************************)
(* Math.pow.  The language fixes its result for a zero exponent, a NaN and *)
(* a zero base; elsewhere the result is an approximation the engine's      *)
(* library chooses.  The libraries in use keep the error below one unit in *)
(* the last place, so the result is the exact power when that is a Number  *)
(* and otherwise the nearest Number or one of its two neighbours: ulps, in *)
(* PowUlps, says which.  EMI and SIP pass a finite base and an integral    *)
(* exponent (a Math.round), the case modelled here.                        *)
(***************************************************************************)
PowUlps == {-1, 0, 1}

\* the Number ulps units in the last place away from the finite non-zero x
Neighbour(x, ulps) ==
    IF ulps = 0 \/ ~IsFinite(x) \/ IsZero(x) THEN x
    ELSE LET q == Max(BBitLen(x.m) + x.e - Precision, EMin)
         IN  FAdd(x, Canon(IF ulps < 0 THEN 1 ELSE 0, <<1>>, q))

\* The powers are computed on <<m, e, inexact>>: m * 2^e when not inexact,
\* and otherwise a value just above m * 2^e, m kept at PowPrecision bits,
\* three times a Number's.  Each product loses less than one unit of its m,
\* so x^n is off by less than n * 2^-(PowPrecision - 1) of its value, far
\* below the unit in the last place of a Number that PowUlps allows for.
PowPrecision == 3 * Precision

Truncated(m, e, inexact) ==
    LET drop == BBitLen(m) - PowPrecision
    IN  IF drop <= 0 THEN <<m, e, inexact>>
        ELSE <<BShr(m, drop), e + drop, inexact \/ BLow(m, drop) # <<>> >>

TruncatedMul(x, y) == Truncated(BMul(x[1], y[1]), x[2] + y[2], x[3] \/ y[3])

\* x^n for n >= 1, by squaring
RECURSIVE TruncatedPow(_, _)
TruncatedPow(x, n) ==
    IF n = 1 THEN x
    ELSE LET h  == TruncatedPow(x, n \div 2)
             sq == TruncatedMul(h, h)
         IN  IF n % 2 = 0 THEN sq ELSE TruncatedMul(sq, x)

\* Math.pow(x, y), lines 454 and 492
MathPow(x, y, ulps) ==
    IF IsNaN(y) THEN NaN
    ELSE IF IsZero(y) THEN FromInt(1)
    ELSE IF IsNaN(x) THEN NaN
    ELSE IF IsFinite(x) /\ IsIntegral(y)
    THEN LET n    == AbsInt(y)
             sign == IF n % 2 = 1 THEN x.s ELSE 0
             p    == TruncatedPow(<<x.m, x.e, FALSE>>, n)
         IN  IF IsZero(x) THEN IF y.s = 0 THEN Zero(sign) ELSE Infinity(sign)
             ELSE IF y.s = 0
                  THEN IF ~p[3] /\ BBitLen(p[1]) <= Precision
                       THEN Canon(sign, p[1], p[2])
                       ELSE Neighbour(RoundNearestEven(sign, p[1], p[2], p[3]), ulps)
                  ELSE IF x.m = <<1>> THEN Canon(sign, <<1>>, -(x.e * n))
                       ELSE Neighbour(RoundDiv(sign, <<1>>, p[1], -p[2]), ulps)
    ELSE NaN

(***************************************************************************)
(* The calculators.  Each output is the component's useMemo value for the  *)
(* state st of its useState cells, and each display the values of its Stat *)
(* elements.                                                               *)
(***************************************************************************)
\* `${before}${s}` for the text s that fmt returned
Template(before, s) ==
    IF s.t = "numeral" THEN Numeral(before \o s.v[1], s.v[2], s.v[3])
    ELSE Str(before \o s.v)

Rupee == <<"₹", " ">>

\* BasicCalculator: result, lines 86-95
BasicCalculator_result(st) ==
    LET x == toNum(st.a)
        y == toNum(st.b)
    IN  CASE st.op = Str("+") -> FAdd(x, y)
          [] st.op = Str("-") -> FSub(x, y)
          [] st.op = Str("×") -> FMul(x, y)
          [] st.op = Str("÷") -> IF FEq(y, Zero(0)) THEN NaN ELSE FDiv(x, y)
          [] OTHER -> NaN

\* line 107
BasicCalculator_display(st) == [result |-> fmt(Num(BasicCalculator_result(st)), 6)]

\* a calc whose Remove mode takes the rate off the amount, a * (1 - r)
GSTCalculator_calc_RemoveSubtractsRate(st) ==
    LET a == toNum(st.amount)
        r == FDiv(toNum(st.rate), FromInt(100))
    IN  IF st.mode = Str("Add GST")
        THEN LET tax == FMul(a, r) IN [tax |-> tax, total |-> FAdd(a, tax)]
        ELSE LET base == FMul(a, FSub(FromInt(1), r))
             IN  [tax |-> FSub(a, base), total |-> base]

\* GSTCalculator: calc, lines 154-162
GSTCalculator_calc(st) ==
    LET a == toNum(st.amount)
        r == FDiv(toNum(st.rate), FromInt(100))
    IN  IF st.mode = Str("Add GST")
        THEN LET tax == FMul(a, r) IN [tax |-> tax, total |-> FAdd(a, tax)]
        ELSE LET base == FDiv(a, FAdd(FromInt(1), r))
             IN  [tax |-> FSub(a, base), total |-> base]

\* lines 176-177
GSTCalculator_display(st) ==
    [tax |-> fmt(Num(GSTCalculator_calc(st).tax), 2),
     total |-> fmt(Num(GSTCalculator_calc(st).total), 2)]

\* unit.startsWith("Metric"): of the two options, the metric one
StartsWithMetric(unit) == unit = Str("Metric (kg, cm)")

\* BMICalculator: bmi, lines 187-194
BMICalculator_bmi(st) ==
    IF StartsWithMetric(st.unit)
    THEN LET m == FDiv(toNum(st.h), FromInt(100))
         IN  FDiv(toNum(st.w), FMul(m, m))
    ELSE FMul(FDiv(toNum(st.w), FMul(toNum(st.h), toNum(st.h))), FromInt(703))

\* a status whose bands take their upper limits in
BMICalculator_status_InclusiveBands(bmi) ==
    IF ~IsFinite(bmi) THEN Str(<<"-">>)
    ELSE IF ~FLt(Dec(185, 1), bmi) THEN Str("Underweight")
    ELSE IF ~FLt(FromInt(25), bmi) THEN Str("Normal")
    ELSE IF ~FLt(FromInt(30), bmi) THEN Str("Overweight")
    ELSE Str("Obese")

\* BMICalculator: status, lines 195-201
BMICalculator_status(bmi) ==
    IF ~IsFinite(bmi) THEN Str(<<"-">>)
    ELSE IF FLt(bmi, Dec(185, 1)) THEN Str("Underweight")
    ELSE IF FLt(bmi, FromInt(25)) THEN Str("Normal")
    ELSE IF FLt(bmi, FromInt(30)) THEN Str("Overweight")
    ELSE Str("Obese")

\* lines 218-219
BMICalculator_display(st) ==
    [bmi |-> fmt(Num(BMICalculator_bmi(st)), 2),
     status |-> BMICalculator_status(BMICalculator_bmi(st))]

\* FractionToDecimal: out, lines 543-546
FractionToDecimal_out(st) ==
    LET n == toNum(st.num)
        d == toNum(st.den)
    IN  IF FEq(d, Zero(0)) THEN NaN ELSE FDiv(n, d)

\* line 553
FractionToDecimal_display(st) == [out |-> fmt(Num(FractionToDecimal_out(st)), 10)]

\* SIP: out, lines 489-496
SIP_out(st, ulps) ==
    LET i   == FDiv(FDiv(toNum(st.r), FromInt(12)), FromInt(100))
        n   == MathRound(FMul(toNum(st.y), FromInt(12)))
        a   == toNum(st.m)
        pow == MathPow(FAdd(FromInt(1), i), n, ulps)
        fv  == FMul(FMul(a, FDiv(FSub(pow, FromInt(1)), i)), FAdd(FromInt(1), i))
        invested == FMul(a, n)
    IN  [fv |-> fv, invested |-> invested, gains |-> FSub(fv, invested)]

\* lines 505-507
SIP_display(st, ulps) ==
    LET out == SIP_out(st, ulps)
    IN  [fv |-> Template(Rupee, fmt(Num(out.fv), 2)),
         invested |-> Template(Rupee, fmt(Num(out.invested), 2)),
         gains |-> Template(Rupee, fmt(Num(out.gains), 2))]

\* an EMI that has no branch for a zero rate
EMI_out_NoZeroRateBranch(st, ulps) ==
    LET principal == toNum(st.p)
        monthlyR  == FDiv(FDiv(toNum(st.r), FromInt(12)), FromInt(100))
        months    == IF st.tenureType = Str("Years")
                     THEN MathRound(FMul(toNum(st.t), FromInt(12)))
                     ELSE MathRound(toNum(st.t))
        pow   == MathPow(FAdd(FromInt(1), monthlyR), months, ulps)
        emi   == FMul(FMul(principal, monthlyR), FDiv(pow, FSub(pow, FromInt(1))))
        total == FMul(emi, months)
    IN  [emi |-> emi, total |-> total, interest |-> FSub(total, principal),
         months |-> months]

\* EMI: out, lines 448-459
EMI_out(st, ulps) ==
    LET principal == toNum(st.p)
        monthlyR  == FDiv(FDiv(toNum(st.r), FromInt(12)), FromInt(100))
        months    == IF st.tenureType = Str("Years")
                     THEN MathRound(FMul(toNum(st.t), FromInt(12)))
                     ELSE MathRound(toNum(st.t))
    IN  IF FEq(monthlyR, Zero(0))
        THEN [emi |-> FDiv(principal, months), total |-> principal,
              interest |-> FromInt(0), months |-> months]
        ELSE LET pow   == MathPow(FAdd(FromInt(1), monthlyR), months, ulps)
                 emi   == FMul(FMul(principal, monthlyR),
                               FDiv(pow, FSub(pow, FromInt(1))))
                 total == FMul(emi, months)
             IN  [emi |-> emi, total |-> total,
                  interest |-> FSub(total, principal), months |-> months]

\* lines 476-479
EMI_display(st, ulps) ==
    LET out == EMI_out(st, ulps)
    IN  [emi |-> Template(Rupee, fmt(Num(out.emi), 2)),
         interest |-> Template(Rupee, fmt(Num(out.interest), 2)),
         total |-> Template(Rupee, fmt(Num(out.total), 2)),
         months |-> Num(out.months)]

(***************************************************************************)
(* The unit converters.  A unit is its id and its two arrow functions, to  *)
(* and from the domain's canonical unit (toM and fromM, toKg and fromKg,   *)
(* toS and fromS, toMS and fromMS, toM2 and fromM2), each v => v,          *)
(* v => v * k or v => v / k.                                               *)
(***************************************************************************)
Same == [op |-> "v", k |-> FromInt(1)]
Times(k) == [op |-> "*", k |-> k]
Over(k) == [op |-> "/", k |-> k]

\* the call fn(v)
Apply(fn, v) ==
    CASE fn.op = "v" -> v
      [] fn.op = "*" -> FMul(v, fn.k)
      [] fn.op = "/" -> FDiv(v, fn.k)

\* LengthConverter: units, lines 309-316
LengthUnits ==
    << [id |-> "mm", toCanonical |-> Over(FromInt(1000)), fromCanonical |-> Times(FromInt(1000))],
       [id |-> "cm", toCanonical |-> Over(FromInt(100)), fromCanonical |-> Times(FromInt(100))],
       [id |-> "m", toCanonical |-> Same, fromCanonical |-> Same],
       [id |-> "km", toCanonical |-> Times(FromInt(1000)), fromCanonical |-> Over(FromInt(1000))],
       [id |-> "inch", toCanonical |-> Times(Dec(254, 4)), fromCanonical |-> Over(Dec(254, 4))],
       [id |-> "ft", toCanonical |-> Times(Dec(3048, 4)), fromCanonical |-> Over(Dec(3048, 4))] >>

\* WeightConverter: units, lines 339-343
WeightUnits ==
    << [id |-> "g", toCanonical |-> Over(FromInt(1000)), fromCanonical |-> Times(FromInt(1000))],
       [id |-> "kg", toCanonical |-> Same, fromCanonical |-> Same],
       [id |-> "lb", toCanonical |-> Times(Dec(45359237, 8)),
        fromCanonical |-> Over(Dec(45359237, 8))] >>

\* TimeConverter: units, lines 366-371
TimeUnits ==
    << [id |-> "sec", toCanonical |-> Same, fromCanonical |-> Same],
       [id |-> "min", toCanonical |-> Times(FromInt(60)), fromCanonical |-> Over(FromInt(60))],
       [id |-> "hr", toCanonical |-> Times(FromInt(3600)), fromCanonical |-> Over(FromInt(3600))],
       [id |-> "day", toCanonical |-> Times(FromInt(86400)),
        fromCanonical |-> Over(FromInt(86400))] >>

\* SpeedConverter: units, lines 393-397
SpeedUnits ==
    << [id |-> "m/s", toCanonical |-> Same, fromCanonical |-> Same],
       [id |-> "km/h", toCanonical |-> Over(Dec(36, 1)), fromCanonical |-> Times(Dec(36, 1))],
       [id |-> "mph", toCanonical |-> Times(Dec(44704, 5)),
        fromCanonical |-> Over(Dec(44704, 5))] >>

\* AreaConverter: units, lines 419-422
AreaUnits ==
    << [id |-> "sq m", toCanonical |-> Same, fromCanonical |-> Same],
       [id |-> "sq ft", toCanonical |-> Times(Dec(9290304, 8)),
        fromCanonical |-> Over(Dec(9290304, 8))] >>

Converters ==
    {"LengthConverter", "WeightConverter", "TimeConverter", "SpeedConverter",
     "AreaConverter"}

UnitTables ==
    [el \in Converters |->
        CASE el = "LengthConverter" -> LengthUnits
          [] el = "WeightConverter" -> WeightUnits
          [] el = "TimeConverter" -> TimeUnits
          [] el = "SpeedConverter" -> SpeedUnits
          [] el = "AreaConverter" -> AreaUnits]

\* the units of the converter component el
Units(el) == UnitTables[el]

\* a conversion that leaves the canonical unit by the function that enters it
Convert_ToCanonicalTwice(units, from, to, v) ==
    LET f == Find(units, from.v)
        t == Find(units, to.v)
    IN  IF f = Undefined \/ t = Undefined THEN NaN
        ELSE Apply(t.toCanonical, Apply(f.toCanonical, v))

\* the body of out in the five converters, lines 320-325, 347-352, 375-379,
\* 401-405, 426-430, for the Number v = toNum(val)
Convert(units, from, to, v) ==
    LET f == Find(units, from.v)
        t == Find(units, to.v)
    IN  IF f = Undefined \/ t = Undefined THEN NaN
        ELSE Apply(t.fromCanonical, Apply(f.toCanonical, v))

\* out of the converter component el in state st
Converter_out(el, st) == Convert(Units(el), st.from, st.to, toNum(st.val))

\* lines 333, 360, 387, 413, 438
Converter_display(el, st) == [out |-> fmt(Num(Converter_out(el, st)), 6)]

(***************************************************************************)
(* The registry and the shell, WorldCalcHub.                               *)
(***************************************************************************)
CALC_REGISTRY == <<
    [id |-> "basic", el |-> "BasicCalculator",
     title |-> <<"B","a","s","i","c"," ","C","a","l","c","u","l","a","t","o","r">>,
     keywords |-> <<"a","d","d"," ","s","u","b","t","r","a","c","t"," ","m","u","l","t","i","p","l","y"," ","d","i","v","i","d","e"," ","a","r","i","t","h","m","e","t","i","c">>],
    [id |-> "percent", el |-> "PercentageCalculator",
     title |-> <<"P","e","r","c","e","n","t","a","g","e">>,
     keywords |-> <<"p","e","r","c","e","n","t","a","g","e"," ","i","n","c","r","e","a","s","e"," ","p","e","r","c","e","n","t"," ","o","f","f">>],
    [id |-> "discount", el |-> "DiscountCalculator",
     title |-> <<"D","i","s","c","o","u","n","t">>,
     keywords |-> <<"s","a","l","e"," ","p","r","i","c","e"," ","o","f","f">>],
    [id |-> "gst", el |-> "GSTCalculator",
     title |-> <<"G","S","T","/","V","A","T">>,
     keywords |-> <<"t","a","x"," ","v","a","t"," ","g","s","t"," ","i","n","c","l","u","s","i","v","e"," ","e","x","c","l","u","s","i","v","e">>],
    [id |-> "bmi", el |-> "BMICalculator",
     title |-> <<"B","M","I">>,
     keywords |-> <<"b","o","d","y"," ","m","a","s","s"," ","i","n","d","e","x"," ","h","e","a","l","t","h">>],
    [id |-> "age", el |-> "AgeCalculator",
     title |-> <<"A","g","e">>,
     keywords |-> <<"a","g","e"," ","y","e","a","r","s"," ","m","o","n","t","h","s"," ","d","a","y","s">>],
    [id |-> "datediff", el |-> "DateDiffCalculator",
     title |-> <<"D","a","t","e"," ","D","i","f","f","e","r","e","n","c","e">>,
     keywords |-> <<"d","a","y","s"," ","b","e","t","w","e","e","n"," ","d","a","t","e","s"," ","w","e","e","k","s">>],
    [id |-> "temp", el |-> "TemperatureConverter",
     title |-> <<"T","e","m","p","e","r","a","t","u","r","e">>,
     keywords |-> <<"c","e","l","s","i","u","s"," ","f","a","h","r","e","n","h","e","i","t"," ","k","e","l","v","i","n">>],
    [id |-> "length", el |-> "LengthConverter",
     title |-> <<"L","e","n","g","t","h">>,
     keywords |-> <<"m","m"," ","c","m"," ","m"," ","k","m"," ","i","n","c","h"," ","f","o","o","t">>],
    [id |-> "weight", el |-> "WeightConverter",
     title |-> <<"W","e","i","g","h","t">>,
     keywords |-> <<"g"," ","k","g"," ","l","b"," ","m","a","s","s">>],
    [id |-> "time", el |-> "TimeConverter",
     title |-> <<"T","i","m","e">>,
     keywords |-> <<"s","e","c","o","n","d","s"," ","m","i","n","u","t","e","s"," ","h","o","u","r","s"," ","d","a","y","s">>],
    [id |-> "speed", el |-> "SpeedConverter",
     title |-> <<"S","p","e","e","d">>,
     keywords |-> <<"k","m","/","h"," ","m","/","s"," ","m","p","h">>],
    [id |-> "area", el |-> "AreaConverter",
     title |-> <<"A","r","e","a">>,
     keywords |-> <<"s","q","u","a","r","e"," ","m","e","t","e","r"," ","f","o","o","t">>],
    [id |-> "emi", el |-> "EMI",
     title |-> <<"E","M","I">>,
     keywords |-> <<"l","o","a","n"," ","m","o","n","t","h","l","y"," ","p","a","y","m","e","n","t"," ","i","n","t","e","r","e","s","t">>],
    [id |-> "sip", el |-> "SIP",
     title |-> <<"S","I","P">>,
     keywords |-> <<"m","u","t","u","a","l"," ","f","u","n","d"," ","i","n","v","e","s","t","m","e","n","t"," ","f","u","t","u","r","e"," ","v","a","l","u","e">>],
    [id |-> "compound", el |-> "CompoundInterest",
     title |-> <<"C","o","m","p","o","u","n","d"," ","I","n","t","e","r","e","s","t">>,
     keywords |-> <<"i","n","t","e","r","e","s","t"," ","c","o","m","p","o","u","n","d","i","n","g">>],
    [id |-> "fraction", el |-> "FractionToDecimal",
     title |-> <<"F","r","a","c","t","i","o","n"," ","→"," ","D","e","c","i","m","a","l">>,
     keywords |-> <<"r","a","t","i","o","n","a","l"," ","n","u","m","b","e","r"," ","d","i","v","i","s","i","o","n">>],
    [id |-> "base", el |-> "BaseConverter",
     title |-> <<"B","a","s","e"," ","C","o","n","v","e","r","t","e","r">>,
     keywords |-> <<"b","i","n","a","r","y"," ","h","e","x"," ","d","e","c","i","m","a","l">>]
>>

\* the components the registry renders
Components == {CALC_REGISTRY[i].el : i \in DOMAIN CALC_REGISTRY}

\* the state a component is mounted with
InitialStates == [el \in Components |-> ComponentState(el)]
InitialState(el) == InitialStates[el]

\* filtered with the query not made lower case
Filtered_CaseSensitive(reg, qry) ==
    LET q == trim(qry)
    IN  IF q = <<>> THEN reg
        ELSE SelectSeq(reg, LAMBDA c : \/ includes(toLowerCase(c.title), q)
                                       \/ includes(toLowerCase(c.keywords), q))

\* filtered, lines 604-610, for the query text qry
Filtered(reg, qry) ==
    LET q == toLowerCase(trim(qry))
    IN  IF q = <<>> THEN reg
        ELSE SelectSeq(reg, LAMBDA c : \/ includes(toLowerCase(c.title), q)
                                       \/ includes(toLowerCase(c.keywords), q))

\* arr[0]
First(arr) == IF arr = <<>> THEN Undefined ELSE arr[1]

\* a || b on registry entries and undefined
OrElse(a, b) == IF a # Undefined THEN a ELSE b

\* current without the fallback to the first filtered entry
Current_NoFilteredFallback(reg, flt, act) == OrElse(Find(flt, act), First(reg))

\* current that looks the active id up in the whole registry
Current_SearchesRegistry(reg, flt, act) ==
    OrElse(OrElse(Find(reg, act), First(flt)), First(reg))

\* current without the fallback to the first entry of the registry
Current_NoRegistryFallback(reg, flt, act) == OrElse(Find(flt, act), First(flt))

\* current, line 612
Current(reg, flt, act) == OrElse(OrElse(Find(flt, act), First(flt)), First(reg))

current == Current(registry, filtered, active)

\* {current?.el}, line 646: the children of <main>
MainChildren(cur) == IF cur = Undefined THEN <<>> ELSE <<cur.el>>

\* a render of <main> that mounts the component anew every time
Render_AlwaysRemounts(cur) ==
    IF MainChildren(cur) = <<>> THEN <<>> ELSE InitialState(cur.el)

\* The render of <main>, lines 645-647: React keeps the state of the
\* component at that place while its type stays the same, and unmounts it
\* and mounts the new one, with its initial state, otherwise.
Render(cur) ==
    IF MainChildren(cur) = MainChildren(current) THEN fields
    ELSE IF MainChildren(cur) = <<>> THEN <<>>
    ELSE InitialState(cur.el)

\* a setQuery that stores the id of the calculator it displays as active
setQuery_StoresDisplayed(value) ==
    /\ query' = value
    /\ UNCHANGED registry
    /\ filtered' = Filtered(registry, value)
    /\ active' = Current(registry, filtered', active).id
    /\ fields' = Render(Current(registry, filtered', active))

\* onChange of the search input, line 625, and the render it causes, which
\* computes filtered anew for the changed query
setQuery(value) ==
    /\ query' = value
    /\ UNCHANGED <<registry, active>>
    /\ filtered' = Filtered(registry, value)
    /\ fields' = Render(Current(registry, filtered', active))

\* a tab click that also clears the search
setActive_ClearsQuery(i) ==
    /\ i \in DOMAIN filtered
    /\ active' = filtered[i].id
    /\ query' = <<>>
    /\ filtered' = Filtered(registry, <<>>)
    /\ UNCHANGED registry
    /\ fields' = Render(Current(registry, filtered', active'))

\* onClick of the i-th tab button, that of filtered[i], line 633
setActive(i) ==
    /\ i \in DOMAIN filtered
    /\ active' = filtered[i].id
    /\ UNCHANGED <<registry, query, filtered>>
    /\ fields' = Render(Current(registry, filtered, active'))

\* onChange of the control of the mounted component el that sets its
\* field f, to the value v
setField(el, f, v) ==
    /\ current.el = el
    /\ f \in DOMAIN fields
    /\ fields' = [fields EXCEPT ![f] = v]
    /\ UNCHANGED <<registry, query, active, filtered>>

(***************************************************************************)
(* The shell with every calculator under it: any query is typed, any tab   *)
(* shown is clicked, and any control of the mounted calculator is changed. *)
(***************************************************************************)
MaxQueryLen == 2
QueryAlphabet == {"b", "M", "i", " "}

\* the values the search input can take by one keystroke: a character of
\* QueryAlphabet typed at its end, or its last character deleted
Keystrokes(text) ==
    {Append(text, c) : c \in IF Len(text) < MaxQueryLen THEN QueryAlphabet ELSE {}}
    \cup IF text = <<>> THEN {} ELSE {SubSeq(text, 1, Len(text) - 1)}

\* what is typed into an <input> of a calculator
TypedTexts == {<<"7">>}

Init ==
    /\ registry = CALC_REGISTRY
    /\ query = <<>>
    /\ active = First(CALC_REGISTRY).id
    /\ filtered = Filtered(CALC_REGISTRY, <<>>)
    /\ fields = InitialState(First(CALC_REGISTRY).el)

TypeQuery == \E value \in Keystrokes(query) : setQuery(value)

ClickTab == \E i \in DOMAIN filtered : setActive(i)

ChangeInput ==
    \E f \in DOMAIN fields :
        \E v \in IF Options(current.el, f) # {} THEN Options(current.el, f)
                 ELSE {Str(txt) : txt \in TypedTexts} :
            setField(current.el, f, v)

Next == TypeQuery \/ ClickTab \/ ChangeInput

Spec == Init /\ [][Next]_vars

(***************************************************************************)
(* The shell's properties.                                                 *)
(***************************************************************************)
\* the positions of filtered whose entry has the stored active id
ActivePositions == {i \in DOMAIN filtered : filtered[i].id = active}

\* C1: the displayed calculator is the entry of the filtered list whose id
\* is the active id if there is one, else the first entry of the filtered
\* list if there is one, else the first entry of the registry.
C1_ResolveActive ==
    /\ ActivePositions # {} => \E i \in ActivePositions : current = filtered[i]
    /\ ActivePositions = {} /\ filtered # <<>> => current = filtered[1]
    /\ ActivePositions = {} /\ filtered = <<>> => current = registry[1]

\* the stored active id is filtered out and the first filtered entry, which
\* is not the registry's first, is displayed in its place
C1_Witness ==
    /\ ActivePositions = {}
    /\ filtered # <<>>
    /\ current = filtered[1]
    /\ current # registry[1]

\* C2 as claimed: whenever the query is not empty after trimming, the
\* displayed calculator is a member of the filtered registry.
C2_QueryNonEmpty_CurrentInFiltered ==
    trim(query) # <<>> => \E i \in DOMAIN filtered : filtered[i] = current

\* C2: whenever the filtered registry is not empty, the displayed calculator
\* is a member of it, and it is its first entry when the stored active id
\* is filtered out.
C2_FilteredNonEmpty_CurrentInFiltered ==
    filtered # <<>> =>
        /\ \E i \in DOMAIN filtered : filtered[i] = current
        /\ ActivePositions = {} => current = filtered[1]

\* a query is typed, the stored active id is filtered out by it, and the
\* first of the entries left is displayed
C2_Witness ==
    /\ trim(query) # <<>>
    /\ filtered # <<>>
    /\ ActivePositions = {}
    /\ current = filtered[1]

\* the pairs of a capital letter and its small letter
LetterPairs == {<<UpperChars[j], LowerChars[j]>> : j \in DOMAIN UpperChars}

\* two characters that are the same letter, whatever their case
SameLetter(c, d) == c = d \/ <<c, d>> \in LetterPairs \/ <<d, c>> \in LetterPairs

\* text has the characters of q, whatever their case, at some place in a row
ContainsIgnoringCase(text, q) ==
    \E i \in 0..(Len(text) - Len(q)) :
        \A j \in DOMAIN q : SameLetter(text[i + j], q[j])

\* the positions of the registry whose entry's title or keywords contain q
Matching(q) ==
    {i \in DOMAIN registry :
        \/ ContainsIgnoringCase(registry[i].title, q)
        \/ ContainsIgnoringCase(registry[i].keywords, q)}

\* the position in the registry of the i-th entry of the filtered list
PositionOf(i) == CHOOSE k \in DOMAIN registry : registry[k] = filtered[i]

\* C3: the filtered list is the whole registry, in its order, when the query
\* is empty after trimming; otherwise it holds exactly the entries whose
\* title or keywords contain the trimmed query whatever the case of its
\* letters, in the order of the registry (none when nothing matches).
C3_Filter ==
    IF trim(query) = <<>>
    THEN filtered = registry
    ELSE LET matching == Matching(trim(query))
         IN  /\ \A i \in DOMAIN filtered : \E k \in matching : registry[k] = filtered[i]
             /\ \A k \in matching : \E i \in DOMAIN filtered : registry[k] = filtered[i]
             /\ \A i \in 1..(Len(filtered) - 1) : PositionOf(i) < PositionOf(i + 1)

\* a query with a capital letter and a space around it keeps some entries,
\* not all; and a query keeps none
C3_Witness ==
    /\ query # trim(query)
    /\ toLowerCase(query) # query
    /\ filtered # <<>>
    /\ Len(filtered) < Len(registry)

\* C4: a step that changes the active id sets it to the id of an entry of
\* the filtered list of the state it is taken in, that entry is the
\* displayed calculator of the next state, and the query and the registry
\* are as before.
C4_SelectTab ==
    [][active' # active =>
          /\ \E i \in DOMAIN filtered : filtered[i].id = active'
          /\ current'.id = active'
          /\ query' = query
          /\ registry' = registry
          /\ filtered' = filtered]_vars

\* a tab other than the first is selected under a query that filters
C4_Witness ==
    /\ trim(query) # <<>>
    /\ Len(filtered) < Len(registry)
    /\ active # registry[1].id
    /\ ActivePositions # {}
    /\ current.id = active

\* the input values the component el shows when it is the displayed one:
\* those of its state when it is mounted, its initial ones when it is to be
\* mounted
InputsOf(el) == IF MainChildren(current) = <<el>> THEN fields ELSE InitialState(el)

\* a step of the shell: the query or the active id changes
ShellStep == query' # query \/ active' # active

\* C5 as claimed: no step of the shell changes the input values of any
\* component, those of a component switched away from included.
C5_ShellKeepsAllInputs ==
    [][ShellStep => \A el \in Components : InputsOf(el)' = InputsOf(el)]_vars

\* C5: a step of the shell that leaves the displayed component in place
\* leaves its input values as they are; a step that puts another component
\* in its place unmounts it, so that the values entered into it are lost,
\* and mounts the other one with its initial input values.
C5_ShellKeepsDisplayedInputs ==
    [][ShellStep =>
          IF MainChildren(current)' = MainChildren(current)
          THEN fields' = fields
          ELSE fields' = InitialState(current'.el)]_vars

\* values were entered into the displayed component and stand under a
\* typed query and a selected tab
C5_Witness ==
    /\ fields # InitialState(current.el)
    /\ trim(query) # <<>>
    /\ active # registry[1].id

\* C6: one calculator component, one of the registry, is rendered in every
\* state, also under a query that matches no entry.
C6_ExactlyOneRendered ==
    /\ Len(MainChildren(current)) = 1
    /\ MainChildren(current)[1] \in Components

\* the query matches no entry and one calculator is rendered
C6_Witness ==
    /\ filtered = <<>>
    /\ Len(MainChildren(current)) = 1


\* C15: a change of the search query leaves the stored active id as it
\* was, and when the changed query is blank the calculator displayed is the
\* one of the stored active id, the one last selected; in every state a
\* blank query displays the calculator of the stored active id, and the
\* stored active id is the id of a registry entry.
C15_QueryKeepsSelection ==
    /\ [](/\ \E i \in DOMAIN registry : registry[i].id = active
          /\ trim(query) = <<>> => current.id = active)
    /\ [][query' # query =>
             /\ active' = active
             /\ trim(query') = <<>> => current'.id = active]_vars

\* a tab other than the first was selected and the query then typed
\* filters it out: another calculator is displayed, the selection is kept
C15_Witness ==
    /\ trim(query) # <<>>
    /\ active # registry[1].id
    /\ \A i \in DOMAIN filtered : filtered[i].id # active
    /\ \E i \in DOMAIN registry : registry[i].id = active
    /\ current.id # active

(***************************************************************************)
(* The calculators under the shell: a tab of the calculators in els is     *)
(* opened, and in the mounted one an option is chosen or a number typed.   *)
(***************************************************************************)
\* what is typed into the <input type="number"> of a calculator: zero in
\* its spellings, nothing, a rate of -100, and other numbers
NumberTexts ==
    {<<"0">>, <<"-", "0">>, <<>>, <<"-", "1", "0", "0">>, <<"7">>, <<"2", ".", "5">>}

\* the principal, the rate and the tenure typed into EMI: tenures are the
\* whole numbers up to MaxTenure either side of zero, and fractions that
\* round to no month, to a negative zero of months, and to a year and a half
MaxTenure == 3
PrincipalTexts == {IntText(500000), IntText(1000), IntText(0), IntText(-1)}
RateTexts == {<<"0">>, <<>>, <<"-", "0">>, <<"1", "0">>, <<"7", ".", "5">>}
TenureTexts ==
    {IntText(n) : n \in -MaxTenure..MaxTenure}
    \cup {<<"0", ".", "0", "4">>, <<"-", "0", ".", "0", "4">>, <<"1", ".", "5">>}

\* the value typed into a converter: the whole numbers up to MaxValue either
\* side of zero, fractions, and numbers at the ends of the Number range
MaxValue == 4
ValueTexts ==
    {IntText(n) : n \in -MaxValue..MaxValue}
    \cup {<<"0", ".", "1">>, <<"2", ".", "5">>, <<"1", "e", "3", "0", "8">>,
          <<"1", "e", "-", "3", "2", "0">>, <<"-", "1", "2", "3", "4", ".", "5", "6">>}

InputTexts(el, f) ==
    CASE el = "EMI" /\ f = "p" -> PrincipalTexts
      [] el = "EMI" /\ f = "r" -> RateTexts
      [] el = "EMI" /\ f = "t" -> TenureTexts
      [] el \in Converters /\ f = "val" -> ValueTexts
      [] OTHER -> NumberTexts

\* a click on the tab of one of the calculators els
OpenTab(els) == \E i \in DOMAIN filtered : filtered[i].el \in els /\ setActive(i)

\* onChange of a <Select> of the mounted calculator
ChooseOption(els) ==
    \E f \in DOMAIN fields :
        \E v \in Options(current.el, f) :
            current.el \in els /\ setField(current.el, f, v)

\* onChange of an <Input> of the mounted calculator: e.target.value, a string
TypeNumber(els) ==
    \E f \in DOMAIN fields :
        \E txt \in InputTexts(current.el, f) :
            /\ current.el \in els
            /\ Options(current.el, f) = {}
            /\ setField(current.el, f, Str(txt))

\* the calculators whose formulas divide
Dividers ==
    {"BasicCalculator", "GSTCalculator", "BMICalculator", "SIP", "FractionToDecimal"}

OpenDivider == OpenTab(Dividers)
ChooseDividerOption == ChooseOption(Dividers)
TypeDividerNumber == TypeNumber(Dividers)

NextDividers == OpenDivider \/ ChooseDividerOption \/ TypeDividerNumber

SpecDividers == Init /\ [][NextDividers]_vars

OpenEMI == OpenTab({"EMI"})
EMI_setTenureType == ChooseOption({"EMI"})
EMI_setP == \E txt \in PrincipalTexts : setField("EMI", "p", Str(txt))
EMI_setR == \E txt \in RateTexts : setField("EMI", "r", Str(txt))
EMI_setT == \E txt \in TenureTexts : setField("EMI", "t", Str(txt))

NextEMI == OpenEMI \/ EMI_setTenureType \/ EMI_setP \/ EMI_setR \/ EMI_setT

SpecEMI == Init /\ [][NextEMI]_vars

OpenConverter == OpenTab(Converters)
Converter_setUnit == ChooseOption(Converters)
Converter_setVal == TypeNumber(Converters)

NextConverters == OpenConverter \/ Converter_setUnit \/ Converter_setVal

SpecConverters == Init /\ [][NextConverters]_vars

(***************************************************************************)
(* The calculators' properties.                                            *)
(***************************************************************************)
\* the text shown is the sentinel "-", alone or after the currency sign of
\* the template it is in
ShowsSentinel(shown) == shown \in {Str(<<"-">>), Str(Rupee \o <<"-">>)}

ShowsNumber(shown) == shown.t = "numeral"

IsZeroText(v) == FEq(toNum(v), Zero(0))

\* C7: whenever a formula divides by zero (Basic with op ÷ and b = 0,
\* Fraction -> Decimal with denominator 0, BMI with height 0, GST Remove with
\* rate -100, SIP with rate 0), each output the division affects is shown
\* as the sentinel "-" and not as a number.
C7_DivisionByZeroShowsSentinel ==
    /\ current.el = "BasicCalculator" /\ fields.op = Str("÷") /\ IsZeroText(fields.b)
          => ShowsSentinel(BasicCalculator_display(fields).result)
    /\ current.el = "FractionToDecimal" /\ IsZeroText(fields.den)
          => ShowsSentinel(FractionToDecimal_display(fields).out)
    /\ current.el = "BMICalculator" /\ IsZeroText(fields.h)
          => /\ ShowsSentinel(BMICalculator_display(fields).bmi)
             /\ ShowsSentinel(BMICalculator_display(fields).status)
    /\ current.el = "GSTCalculator" /\ fields.mode = Str("Remove GST")
          /\ FEq(toNum(fields.rate), FromInt(-100))
          => /\ ShowsSentinel(GSTCalculator_display(fields).tax)
             /\ ShowsSentinel(GSTCalculator_display(fields).total)
    /\ current.el = "SIP" /\ IsZeroText(fields.r)
          => \A ulps \in PowUlps :
                /\ ShowsSentinel(SIP_display(fields, ulps).fv)
                /\ ShowsSentinel(SIP_display(fields, ulps).gains)

\* a BMI of a non-zero weight over a zero height, an infinity, is shown as "-"
C7_Witness ==
    /\ current.el = "BMICalculator"
    /\ fields.h = Str(<<"0">>)
    /\ fields.w = Str(<<"7">>)
    /\ BMICalculator_bmi(fields) = Infinity(0)
    /\ BMICalculator_display(fields).bmi = Str(<<"-">>)

\* the monthly rate and the number of months of the EMI inputs, as the
\* calculator is specified: rate / 12 / 100, and the tenure, in months,
\* rounded to the nearest integer
MonthlyRate(st) == FDiv(FDiv(toNum(st.r), FromInt(12)), FromInt(100))
Months(st) ==
    MathRound(IF st.tenureType = Str("Years") THEN FMul(toNum(st.t), FromInt(12))
              ELSE toNum(st.t))

\* C8: with a monthly rate of 0 and more than 0 months, emi is
\* principal / months exactly, interest is 0 and total is principal, in
\* either tenure unit.
C8_ZeroRateEMI ==
    current.el = "EMI" /\ FEq(MonthlyRate(fields), Zero(0))
        /\ FLt(Zero(0), Months(fields))
    => \A ulps \in PowUlps :
          LET out == EMI_out(fields, ulps)
          IN  /\ out.months = Months(fields)
              /\ out.emi = FDiv(toNum(fields.p), Months(fields))
              /\ FEq(out.interest, Zero(0))
              /\ out.total = toNum(fields.p)

\* 1000 at no interest over 3 months: 333.33... a month
C8_Witness ==
    /\ current.el = "EMI"
    /\ fields.p = Str(IntText(1000))
    /\ fields.r = Str(<<"0">>)
    /\ fields.tenureType = Str("Months")
    /\ fields.t = Str(IntText(3))
    /\ EMI_out(fields, 0).emi = FDiv(FromInt(1000), FromInt(3))
    /\ ShowsNumber(EMI_display(fields, 0).emi)

\* C9: when the number of months is 0 or negative, the emi is shown as the
\* sentinel "-".
C9_NonPositiveMonthsShowSentinel ==
    current.el = "EMI" /\ ~FLt(Zero(0), Months(fields))
    => \A ulps \in PowUlps : ShowsSentinel(EMI_display(fields, ulps).emi)

\* x converted from the unit from to the unit to and back, in converter el
RoundTrip(el, st) == Convert(Units(el), st.to, st.from, Converter_out(el, st))

\* |y - x| <= |x| * 2^-50, computed exactly
Close(y, x) ==
    /\ IsFinite(x) /\ IsFinite(y)
    /\ LET e0 == Min(x.e, y.e)
           a  == BShl(x.m, x.e - e0)
           b  == BShl(y.m, y.e - e0)
           d  == IF x.s # y.s THEN BAdd(a, b)
                 ELSE IF BCmp(a, b) >= 0 THEN BSub(a, b) ELSE BSub(b, a)
       IN  BCmp(BShl(d, Precision - 3), a) <= 0

\* x is 0, or 2^(EMin + Margin - 1) <= |x| < 2^(EMax - Margin): no product
\* or quotient of a conversion of x leaves the normal Numbers
Margin == 2 * Precision
InRange(x) ==
    \/ IsZero(x)
    \/ /\ IsFinite(x)
       /\ BBitLen(x.m) + x.e >= EMin + Margin
       /\ BBitLen(x.m) + x.e <= EMax - Margin

IsCanonical(el, unit) == Find(Units(el), unit.v).toCanonical = Same

\* C10 as stated: converting x from one unit to another and back yields x,
\* and so does converting with both units the same.
C10_RoundTripExact ==
    current.el \in Converters
    => LET x == toNum(fields.val)
       IN  /\ FEq(RoundTrip(current.el, fields), x)
           /\ fields.from = fields.to => FEq(Converter_out(current.el, fields), x)

\* C10: for x in range, converting x from one unit to another and back, and
\* converting with both units the same, yield x to within |x| * 2^-50, and x
\* itself when x is 0 or both units are the canonical one.
C10_RoundTripClose ==
    current.el \in Converters /\ InRange(toNum(fields.val))
    => LET x    == toNum(fields.val)
           out  == Converter_out(current.el, fields)
           back == RoundTrip(current.el, fields)
       IN  /\ Close(back, x)
           /\ fields.from = fields.to => Close(out, x)
           /\ IsZero(x) => IsZero(back)
           /\ IsCanonical(current.el, fields.from) /\ IsCanonical(current.el, fields.to)
                 => out = x /\ back = x

\* 3 inch to ft and back is not 3, but close
C10_Witness ==
    /\ current.el = "LengthConverter"
    /\ fields.from = Str("inch") /\ fields.to = Str("ft")
    /\ fields.val = Str(IntText(3))
    /\ ~FEq(RoundTrip(current.el, fields), FromInt(3))
    /\ Close(RoundTrip(current.el, fields), FromInt(3))

(***************************************************************************)
(* GST / VAT: the tab is opened, the mode chosen, and an amount and a rate *)
(* typed.                                                                  *)
(***************************************************************************)
\* the amounts typed: the whole numbers up to MaxAmount either side of
\* zero, prices, and numbers at the ends of the Number range
MaxAmount == 3
AmountTexts ==
    {IntText(n) : n \in -MaxAmount..MaxAmount}
    \cup {IntText(1000), <<"9", "9", ".", "9", "9">>, <<"0", ".", "1">>,
          <<"1", "e", "3", "0", "8">>, <<"1", "e", "-", "3", "2", "0">>}

\* the rates typed, in percent
GSTRateTexts ==
    {IntText(0), IntText(5), IntText(12), IntText(18), IntText(28), IntText(100),
     <<"2", ".", "5">>, IntText(-50), IntText(-100)}

OpenGST == OpenTab({"GSTCalculator"})
GST_setMode == ChooseOption({"GSTCalculator"})
GST_setAmount == \E txt \in AmountTexts : setField("GSTCalculator", "amount", Str(txt))
GST_setRate == \E txt \in GSTRateTexts : setField("GSTCalculator", "rate", Str(txt))

NextGST == OpenGST \/ GST_setMode \/ GST_setAmount \/ GST_setRate

SpecGST == Init /\ [][NextGST]_vars

\* calc in Add mode for the amount and the rate of st
GST_Add(st) == GSTCalculator_calc([st EXCEPT !.mode = Str("Add GST")])

\* calc in Remove mode for the total of Add and the rate of st
GST_RemoveOfAdd(st) ==
    GSTCalculator_calc([st EXCEPT !.amount = Num(GST_Add(st).total),
                                  !.mode = Str("Remove GST")])

\* |y - x| <= |scale| * 2^-50, computed exactly
Within(y, x, scale) ==
    /\ IsFinite(x) /\ IsFinite(y) /\ IsFinite(scale)
    /\ LET e0 == Min(Min(x.e, y.e), scale.e)
           a  == BShl(x.m, x.e - e0)
           b  == BShl(y.m, y.e - e0)
           c  == BShl(scale.m, scale.e - e0)
           d  == IF x.s # y.s THEN BAdd(a, b)
                 ELSE IF BCmp(a, b) >= 0 THEN BSub(a, b) ELSE BSub(b, a)
       IN  BCmp(BShl(d, Precision - 3), c) <= 0

\* C11 as stated: for every amount and rate, Remove of the total of Add at
\* the same rate returns the amount as its base and the tax of Add as its
\* tax.
C11_AddThenRemoveExact ==
    current.el = "GSTCalculator"
    => /\ FEq(GST_RemoveOfAdd(fields).total, toNum(fields.amount))
       /\ FEq(GST_RemoveOfAdd(fields).tax, GST_Add(fields).tax)

\* C11: for an amount in range and a rate >= 0 whose Add total is finite,
\* Remove of the total of Add at the same rate returns a base within
\* |amount| * 2^-50 of the amount and a tax within |total| * 2^-50 of the
\* tax of Add, and exactly the amount and the tax when the rate or the
\* amount is 0.
C11_AddThenRemoveClose ==
    current.el = "GSTCalculator"
        /\ InRange(toNum(fields.amount))
        /\ ~FLt(toNum(fields.rate), Zero(0))
        /\ IsFinite(GST_Add(fields).total)
    => LET a   == toNum(fields.amount)
           add == GST_Add(fields)
           rem == GST_RemoveOfAdd(fields)
       IN  /\ Close(rem.total, a)
           /\ Within(rem.tax, add.tax, add.total)
           /\ IsZero(a) \/ IsZero(toNum(fields.rate))
                 => FEq(rem.total, a) /\ FEq(rem.tax, add.tax)

\* 1000 at 12%: the total 1120 has the base 999.9999999999999
C11_Witness ==
    /\ current.el = "GSTCalculator"
    /\ fields.amount = Num(FromInt(1000))
    /\ fields.rate = Str(IntText(12))
    /\ GST_Add(fields).total = FromInt(1120)
    /\ ~FEq(GST_RemoveOfAdd(fields).total, FromInt(1000))
    /\ Close(GST_RemoveOfAdd(fields).total, FromInt(1000))

(***************************************************************************)
(* Number Base Converter: the tab is opened, the bases chosen and a value  *)
(* typed.                                                                  *)
(***************************************************************************)
\* BaseConverter: out, lines 562-565
BaseConverter_out(st) ==
    LET n == parseInt(st.val.v, st.from)
    IN  IF IsNaN(n) THEN Str(<<"-">>) ELSE toUpperCase(NumberToString(n, st.to))

\* line 573
BaseConverter_display(st) == [out |-> BaseConverter_out(st)]

\* the values typed: the whole numbers up to MaxBaseValue either side of
\* zero, numerals with letters in either case, with a sign, with an 0x
\* before them, with white space before them, with a character after them
\* that is no digit, of a digit that the smaller radixes lack, of 2^53 + 1,
\* and no numeral at all
MaxBaseValue == 2
BaseValueTexts ==
    {IntText(n) : n \in -MaxBaseValue..MaxBaseValue}
    \cup {IntText(42), IntText(18), <<"f", "f">>, <<"F", "f">>, <<"z">>,
          <<"-", "f", "f">>, <<"-", "0">>, <<"+", "7">>, <<"0", "x", "1", "F">>,
          <<" ", "4", "2">>, <<"1", "2", "z">>, <<"4", ".", "5">>, <<>>, <<"-">>,
          <<"9", "0", "0", "7", "1", "9", "9", "2", "5", "4", "7", "4", "0", "9", "9", "3">>}

OpenBase == OpenTab({"BaseConverter"})
Base_setFrom ==
    \E v \in Options("BaseConverter", "from") : setField("BaseConverter", "from", v)
Base_setTo ==
    \E v \in Options("BaseConverter", "to") : setField("BaseConverter", "to", v)
Base_setVal == \E txt \in BaseValueTexts : setField("BaseConverter", "val", Str(txt))

NextBase == OpenBase \/ Base_setFrom \/ Base_setTo \/ Base_setVal

SpecBase == Init /\ [][NextBase]_vars

\* str, whole, is an integer numeral in radix R: digits of R, one at
\* least, after at most one sign
IsNumeral(str, R) ==
    LET signed == str # <<>> /\ str[1] \in {"+", "-"}
        digits == IF signed THEN Tail(str) ELSE str
    IN  /\ digits # <<>>
        /\ \A i \in DOMAIN digits : RadixDigitVal(digits[i]) < R

\* the integer the numeral str denotes in radix R, written in radix T with
\* upper-case letters
Representation(str, R, T) ==
    LET signed == str[1] \in {"+", "-"}
        n      == RadixDigitsValue(str, IF signed THEN 2 ELSE 1,
                                   IF signed THEN Len(str) - 1 ELSE Len(str), R)
    IN  IF n = <<>> THEN Str(<<"0">>)
        ELSE toUpperCase(Str((IF str[1] = "-" THEN <<"-">> ELSE <<>>)
                             \o RadixDigits(n, T)))

\* C12: the output is the upper-case representation in toBase of the
\* integer the whole input denotes in fromBase, and the sentinel "-" for
\* every input that is not an integer numeral in fromBase.
C12_ConvertsWholeNumeral ==
    current.el = "BaseConverter"
    => LET R == ToInt32(fields.from)
           T == ToInt32(fields.to)
       IN  IF IsNumeral(fields.val.v, R)
           THEN BaseConverter_out(fields) = Representation(fields.val.v, R, T)
           ELSE BaseConverter_out(fields) = Str(<<"-">>)

(***************************************************************************)
(* Age Calculator.  A Date is kept as its calendar date [year, month,      *)
(* date], month counted from 0 as getMonth does, or as NaN when it is      *)
(* invalid.  The current date and the side of UTC the host's time zone is  *)
(* on are the environment's: diff takes them as now and tz.                *)
(***************************************************************************)
IsLeapYear(y) == y % 4 = 0 /\ (y % 100 # 0 \/ y % 400 = 0)

\* the number of days of month m, counted from 0, of year y
DaysInMonth(y, m) ==
    IF m = 1 THEN IF IsLeapYear(y) THEN 29 ELSE 28
    ELSE IF m \in {3, 5, 8, 10} THEN 30 ELSE 31

\* n in k decimal digits
Padded(n, k) == [i \in 1..(k - Len(NatText(n))) |-> "0"] \o NatText(n)

\* the value of an <input type="date">: yyyy-mm-dd
DateText(y, m, d) ==
    Padded(y, 4) \o <<"-">> \o Padded(m + 1, 2) \o <<"-">> \o Padded(d, 2)

\* new Date(string) for the values of an <input type="date">: the empty
\* text is no date, and yyyy-mm-dd is midnight UTC at the start of that
\* day.  (Other texts are parsed as the engine chooses.)
NewDate(str) ==
    CASE str = <<>> -> NaN
      [] /\ Len(str) = 10
         /\ str[5] = "-" /\ str[8] = "-"
         /\ DigitRun(str, 1) = 4 /\ DigitRun(str, 6) = 2 /\ DigitRun(str, 9) = 2
         /\ SmallDigitsValue(str, 6, 2) \in 1..12
         /\ SmallDigitsValue(str, 9, 2) \in
               1..DaysInMonth(SmallDigitsValue(str, 1, 4), SmallDigitsValue(str, 6, 2) - 1)
         -> [year |-> SmallDigitsValue(str, 1, 4),
             month |-> SmallDigitsValue(str, 6, 2) - 1,
             date |-> SmallDigitsValue(str, 9, 2)]

\* the side of UTC the host's time zone is on
TimeZones == {"west", "east"}

\* getFullYear, getMonth, getDate of midnight UTC of the day utc in the
\* zone tz: that day at and east of UTC, the day before it west of UTC
LocalDate(utc, tz) ==
    IF tz = "east" THEN utc
    ELSE IF utc.date > 1 THEN [utc EXCEPT !.date = utc.date - 1]
    ELSE IF utc.month > 0
         THEN [utc EXCEPT !.month = utc.month - 1,
                          !.date = DaysInMonth(utc.year, utc.month - 1)]
    ELSE [year |-> utc.year - 1, month |-> 11, date |-> 31]

\* new Date(year, month, 0).getDate(): the last day of the month before
PrevMonth(year, month) ==
    IF month = 0 THEN DaysInMonth(year - 1, 11) ELSE DaysInMonth(year, month - 1)

\* AgeCalculator: diff, lines 228-241, with now the local current date
AgeCalculator_diff(st, now, tz) ==
    IF NewDate(st.dob.v) = NaN THEN Null
    ELSE LET d       == LocalDate(NewDate(st.dob.v), tz)
             years0  == now.year - d.year
             months0 == now.month - d.month
             days0   == now.date - d.date
             days    == IF days0 < 0 THEN days0 + PrevMonth(now.year, now.month)
                        ELSE days0
             months1 == IF days0 < 0 THEN months0 - 1 ELSE months0
             months  == IF months1 < 0 THEN months1 + 12 ELSE months1
             years   == IF months1 < 0 THEN years0 - 1 ELSE years0
         IN  [years |-> years, months |-> months, days |-> days]

\* lines 246-248
AgeCalculator_display(st, now, tz) ==
    LET diff == AgeCalculator_diff(st, now, tz)
    IN  IF diff = Null
        THEN [years |-> Str(<<"-">>), months |-> Str(<<"-">>), days |-> Str(<<"-">>)]
        ELSE [years |-> Num(FromInt(diff.years)), months |-> Num(FromInt(diff.months)),
              days |-> Num(FromInt(diff.days))]

\* the calendar: 1999 and the MaxYears years after it, the leap year 2000
\* among them, with the first and the last four days of every month
MaxYears == 2
Years == 1999..(1999 + MaxYears)
Dates ==
    {dt \in [year : Years, month : 0..11, date : {1, 28, 29, 30, 31}] :
        dt.date <= DaysInMonth(dt.year, dt.month)}

\* the dates picked in the date control, and the control cleared
DobTexts == {DateText(dt.year, dt.month, dt.date) : dt \in Dates} \cup {<<>>}

OpenAge == OpenTab({"AgeCalculator"})
Age_setDob == \E txt \in DobTexts : setField("AgeCalculator", "dob", Str(txt))

NextAge == OpenAge \/ Age_setDob

SpecAge == Init /\ [][NextAge]_vars

\* the day a is not later than the day b
NotLater(a, b) ==
    \/ a.year < b.year
    \/ a.year = b.year /\ a.month < b.month
    \/ a.year = b.year /\ a.month = b.month /\ a.date <= b.date

\* C13: for every valid date of birth not later than the current date, the
\* result is a normalized duration: years >= 0, 0 <= months <= 11 and
\* days >= 0.
C13_AgeNormalized ==
    current.el = "AgeCalculator" /\ NewDate(fields.dob.v) # NaN
    => \A now \in Dates : \A tz \in TimeZones :
          NotLater(NewDate(fields.dob.v), now)
          => LET diff == AgeCalculator_diff(fields, now, tz)
             IN  /\ diff.years >= 0
                 /\ diff.months >= 0 /\ diff.months <= 11
                 /\ diff.days >= 0

(***************************************************************************)
(* BMI: the tab is opened, the unit system chosen, and a weight and a      *)
(* height typed.                                                           *)
(***************************************************************************)
\* the weights typed: the whole numbers up to MaxWeight, the limits of the
\* bands and numbers next to them, a negative weight and no weight
MaxWeight == 2
WeightTexts ==
    {IntText(n) : n \in 0..MaxWeight}
    \cup {<<"1", "8", ".", "4">>, <<"1", "8", ".", "5">>, IntText(25), IntText(30),
          <<"2", "9", ".", "9", "9">>, IntText(70), IntText(154), IntText(-5), <<>>}

\* the heights typed: 100 cm, for which the metric BMI is the weight, other
\* heights, and no height in its spellings
HeightTexts ==
    {IntText(100), IntText(170), IntText(67), IntText(1), IntText(0), <<"-", "0">>, <<>>}

OpenBMI == OpenTab({"BMICalculator"})
BMI_setUnit == ChooseOption({"BMICalculator"})
BMI_setW == \E txt \in WeightTexts : setField("BMICalculator", "w", Str(txt))
BMI_setH == \E txt \in HeightTexts : setField("BMICalculator", "h", Str(txt))

NextBMI == OpenBMI \/ BMI_setUnit \/ BMI_setW \/ BMI_setH

SpecBMI == Init /\ [][NextBMI]_vars

\* x <= y
FLe(x, y) == FLt(x, y) \/ FEq(x, y)

\* the BMI as specified: weight / (height / 100)^2 in Metric and
\* weight / height^2 * 703 in Imperial
SpecifiedBMI(st) ==
    LET weight == toNum(st.w)
        height == toNum(st.h)
    IN  IF st.unit = Str("Metric (kg, cm)")
        THEN FDiv(weight, FMul(FDiv(height, FromInt(100)), FDiv(height, FromInt(100))))
        ELSE FMul(FDiv(weight, FMul(height, height)), FromInt(703))

\* the status is the band of bmi, and so not the sentinel, the one status
\* of a single character
InBand(status, bmi) ==
    /\ Len(status.v) > 1
    /\ status \in {Str("Underweight"), Str("Normal"), Str("Overweight"), Str("Obese")}
    /\ FLt(bmi, Dec(185, 1)) => status = Str("Underweight")
    /\ FLe(Dec(185, 1), bmi) /\ FLt(bmi, FromInt(25)) => status = Str("Normal")
    /\ FLe(FromInt(25), bmi) /\ FLt(bmi, FromInt(30)) => status = Str("Overweight")
    /\ FLe(FromInt(30), bmi) => status = Str("Obese")

\* C14 as stated: for every weight and height in either unit system, the
\* status is the band of the BMI computed as specified.
C14_StatusIsBand ==
    current.el = "BMICalculator"
    => /\ BMICalculator_bmi(fields) = SpecifiedBMI(fields)
       /\ InBand(BMICalculator_display(fields).status, SpecifiedBMI(fields))

\* C14: the BMI is computed as specified; when it is finite the status is
\* its band (Underweight below 18.5, Normal from 18.5 to below 25,
\* Overweight from 25 to below 30, Obese from 30), and when it is not (the
\* height is 0) the status is the sentinel "-".
C14_StatusIsBandOfFiniteBMI ==
    current.el = "BMICalculator"
    => /\ BMICalculator_bmi(fields) = SpecifiedBMI(fields)
       /\ IF IsFinite(SpecifiedBMI(fields))
          THEN InBand(BMICalculator_display(fields).status, SpecifiedBMI(fields))
          ELSE BMICalculator_display(fields).status = Str(<<"-">>)

\* 25 kg at 100 cm: a BMI of 25, the lower limit of Overweight
C14_Witness ==
    /\ current.el = "BMICalculator"
    /\ fields.unit = Str("Metric (kg, cm)")
    /\ fields.w = Str(IntText(25)) /\ fields.h = Str(IntText(100))
    /\ BMICalculator_bmi(fields) = FromInt(25)
    /\ BMICalculator_display(fields).status = Str("Overweight")

====
